---- MODULE Spec2Model ----
(***************************************************************************)
(* Video-to-Text: the request handler of POST /api/transcribe, the remote *)
(* backend adapter transcribeFile, the segmented path transcribeLargeFile *)
(* and the local backend runLocalWhisper, as one state machine per        *)
(* request (Spec, LiveSpec); two requests sharing the temp directory      *)
(* (SpecJobs); the browser client (SpecClient); and the in-process        *)
(* pipeline of lib/local-whisper.js (SpecTranscriber).  Strings are       *)
(* sequences of characters; files are entries of a map from path to size  *)
(* in bytes.                                                              *)
(***************************************************************************)
EXTENDS Integers, Sequences, FiniteSets, TLC

\* ------------------------------------------------------------------ bounds
\* Largest number of whole segments a probed duration spans in the model.
MaxSegs == 2

\* Durations are counted in ticks of 1/TicksPerSec second, so that probed
\* durations that are no whole number of seconds are among them.
TicksPerSec == 2

\* Values the unique suffix of an upload's name is drawn from.
MaxSuffix == 2

\* Transcriptions the browser client starts.
MaxRequests == 2

\* Clipboard writes the browser client has pending at a time.
MaxCopies == 1

\* Concurrent transcribeLocal calls.
MaxCallers == 2

\* Chunks of 30 s an audio file spans in transcribeLocal.
MaxChunks == 1

\* ------------------------------------------------------- program constants
MAX_FILE_SIZE == 200 * 1024 * 1024
WHISPER_MAX_SIZE == 25 * 1024 * 1024
SEGMENT_DURATION_SEC == 600
Sentinel == <<"(No speech detected)">>

\* ------------------------------------------------------------------ inputs
Modes == {"api", "local"}

\* Upload sizes: under, at and over the remote limit, and over the ceiling.
UploadSizes == {1, WHISPER_MAX_SIZE, WHISPER_MAX_SIZE + 1, MAX_FILE_SIZE + 1}

\* Sizes an extracted segment file can have on disk: the largest that may be
\* sent and the smallest that may not.
SegSizes == {WHISPER_MAX_SIZE, WHISPER_MAX_SIZE + 1}

\* SEGMENT_DURATION_SEC in ticks.
SegmentTicks == SEGMENT_DURATION_SEC * TicksPerSec

\* Durations ffprobe can report (in ticks), around each multiple of the
\* segment length; 0 is also what a missing duration becomes.
Durations ==
  {k * SegmentTicks + r : k \in 0..(MaxSegs - 1), r \in {0, 1, SegmentTicks - 1}}
  \cup {MaxSegs * SegmentTicks}

\* A backend's answer: an object whose text field may be missing.
Strings == {<<>>, <<" ">>, <<" ", "a", "\n">>, <<"b", " ", "b">>}
Answers == [defined : {TRUE}, text : Strings]
             \cup {[defined |-> FALSE, text |-> <<>>]}

\* -------------------------------------------------------------------- paths
UploadPath == <<"upload", 0>>
AudioPath == <<"audio", 0>>
OtherTemp == <<"other", 0>>

\* path.join(TEMP_DIR, `${jobId}-seg-${segments.length}.mp3`)
SegPath(n) == <<"seg", n>>

IsJobTemp(p) == p[1] \in {"audio", "seg"}

\* ------------------------------------------------------------------- errors
\* The fields of a thrown value that the handler's catch block reads, and the
\* place it was thrown from (kind).
Err(kind, ffm, status, name, cause, code, badType) ==
  [kind |-> kind, ffmpeg |-> ffm, status |-> status, name |-> name,
   cause |-> cause, code |-> code, badType |-> badType]

NoErr == Err("none", FALSE, 0, "none", "none", "none", FALSE)

\* fluent-ffmpeg rejections; the message usually, not always, names the tool.
ExtractionErrors ==
  {Err("extraction", f, 0, "Error", "none", "none", FALSE) : f \in BOOLEAN}
ProbeErrors ==
  {Err("probe", f, 0, "Error", "none", "none", FALSE) : f \in BOOLEAN}

\* new Error(`Segment too large (...)`)
TooLargeError == Err("tooLarge", FALSE, 0, "Error", "none", "none", FALSE)

\* fs.stat on a path that is not there
StatError == Err("stat", FALSE, 0, "Error", "none", "ENOENT", FALSE)

\* What openai.audio.transcriptions.create rejects with.
RemoteErrors ==
  {Err("auth", FALSE, 401, "AuthenticationError", "none", "none", FALSE),
   Err("rate", FALSE, 429, "RateLimitError", "none", "none", FALSE),
   Err("conn", FALSE, 0, "APIConnectionError", "none", "none", FALSE),
   Err("conn", FALSE, 0, "Error", "ECONNRESET", "none", FALSE),
   Err("conn", FALSE, 0, "Error", "ETIMEDOUT", "none", FALSE),
   Err("conn", FALSE, 0, "Error", "ENOTFOUND", "none", FALSE),
   Err("remoteOther", FALSE, 500, "InternalServerError", "none", "none", FALSE)}

\* What runLocalWhisper rejects with (the child's stderr may name ffmpeg).
LocalErrors ==
  {Err("local", f, 0, "Error", "none", "none", FALSE) : f \in BOOLEAN}

\* What multer passes to next(err).
FileSizeError == Err("fileSize", FALSE, 0, "MulterError", "none", "LIMIT_FILE_SIZE", FALSE)
FileTypeError == Err("fileType", FALSE, 0, "Error", "none", "none", TRUE)

VARIABLES
  mode,        \* TRANSCRIPTION_MODE
  apiKey,      \* whether process.env.OPENAI_API_KEY is set
  req,         \* the request: whether it carries a file, its extension, size
  pc,          \* where the request is
  filePath,    \* the handler's filePath: TRUE once set to req.file.path
  disk,        \* path -> size in bytes, for every file on disk
  disk0,       \* the files on disk before the request
  text,        \* the handler's text
  err,         \* the error in flight, or NoErr
  responses,   \* what has been sent to the caller, in order
  caller,      \* who called transcribeFile: "single" or "large"
  tfPath,      \* transcribeFile's filePath
  segments,    \* transcribeLargeFile: segments
  start,       \* transcribeLargeFile: start
  duration,    \* transcribeLargeFile: duration
  segDur,      \* transcribeLargeFile: segDuration of the extraction in flight
  texts,       \* transcribeLargeFile: texts
  idx,         \* transcribeLargeFile: position of the for loop in segments
  del,         \* transcribeLargeFile: position of the finally loop in toDelete
  tlfResult,   \* transcribeLargeFile: the value of its return statement
  calls,       \* how often each function was called
  netLog,      \* the files sent to the remote service, with outcome
  segArgs,     \* the (start, length) of each extractSegment call
  answers,     \* the answers the remote service gave, in order
  unlinkLog,   \* the fs.unlink calls made, with outcome
  child,       \* runLocalWhisper: the child's events still to come
  lwPromise,   \* runLocalWhisper: state of the promise it returned
  lwSettles,   \* runLocalWhisper: resolve and reject calls made so far
  lwCause,     \* runLocalWhisper: what the settling handler saw
  lwMessage,   \* runLocalWhisper: which message the rejection carries
  jobs,        \* two concurrent requests in the segmented path: their locals
  tempDir,     \* the files in TEMP_DIR those two requests share
  hidden,      \* client: the hidden attribute of the four page elements
  transcript,  \* client: transcriptEl.textContent
  errorMessage,  \* client: errorMessage.textContent
  copyLabel,   \* client: copyBtn.textContent
  transcribes, \* client: where each call of transcribe(file) is
  copies,      \* client: clipboard writes not yet settled
  timers,      \* client: setTimeout callbacks not yet run
  dialog,      \* client: whether the file dialog is open
  transcriberPromise,  \* local-whisper.js: the module variable
  pipelines,   \* local-whisper.js: state of each promise pipeline() returned
  locals       \* local-whisper.js: the locals of each transcribeLocal call

reqVars == <<mode, apiKey, req, pc, filePath, disk, disk0, text, err, responses, caller,
             tfPath, segments, start, duration, segDur, texts, idx, del,
             tlfResult, calls, netLog, segArgs, answers, unlinkLog,
             child, lwPromise, lwSettles, lwCause, lwMessage>>
jobsVars == <<jobs, tempDir>>
clientVars == <<hidden, transcript, errorMessage, copyLabel, transcribes, copies,
                timers, dialog>>
whisperVars == <<transcriberPromise, pipelines, locals>>
vars == <<reqVars, jobsVars, clientVars, whisperVars>>

tlfVars == <<segments, start, duration, segDur, texts, idx, del, tlfResult>>
histVars == <<calls, netLog, segArgs, answers, unlinkLog>>
lwVars == <<child, lwPromise, lwSettles, lwCause, lwMessage>>

\* What the child wrote to its standard output, as JSON.parse sees it: an
\* object (with or without a text field), another JSON value, null, or
\* something that is no JSON.
NoAnswer == [defined |-> FALSE, text |-> <<>>]
Stdouts ==
  [kind : {"object"}, ans : Answers]
  \cup {[kind |-> k, ans |-> NoAnswer] : k \in {"scalar", "null", "garbage"}}

\* What the child wrote to its standard error: nothing, a JSON object with
\* or without an error field, or plain text (naming a missing module, naming
\* ffmpeg, or neither).
Stderrs == {"empty", "jsonError", "jsonOther", "noModule", "textFfmpeg", "text"}

\* Exit codes of the child: 0, and 1 for every other code.
ExitCodes == {0, 1}

NoCause == [event |-> "none", code |-> 0, out |-> [kind |-> "garbage", ans |-> NoAnswer],
            diag |-> "empty"]

NoCalls ==
  [extractAudio |-> 0, getDuration |-> 0, extractSegment |-> 0,
   transcribeFile |-> 0, runLocalWhisper |-> 0, plan |-> 0,
   transcribeLargeFile |-> 0]

Called(f) == [calls EXCEPT ![f] = @ + 1]

\* ------------------------------------------- the other parts of the program
\* Two requests that are in the segmented path at the same time.
Jobs == {"first", "second"}

\* Date.now() + '-' + Math.round(Math.random() * 1e9): two requests can draw
\* the same value (same millisecond, same random number) or different ones.
Suffixes == 1 .. MaxSuffix

\* path.extname(file.originalname) || '.mp4', among the extensions allowed
Exts == {".mp4", ".webm"}

\* `video-${uniqueSuffix}${ext}` in UPLOAD_DIR, as its two variable parts
UploadName(suffix, ext) == [stem |-> suffix, ext |-> ext]

NoFile == [stem |-> 0, ext |-> ""]

\* A request before its upload: the locals of transcribeLargeFile, and the
\* temp paths it has created and has used so far.
NoJob ==
  [pc |-> "idle", file |-> NoFile, plan |-> 0, segments |-> 0, idx |-> 1,
   del |-> 1, failed |-> FALSE, created |-> {}, touched |-> {}]

JobsIdle ==
  /\ jobs = [j \in Jobs |-> NoJob]
  /\ tempDir = {}

\* Calls of transcribe(file) in the page, numbered in the order they start.
ClientRequests == 1 .. MaxRequests

\* What the page shows when loaded: the dropzone content, neither the
\* loading indicator nor the result nor the error section.
PageLoaded == [content |-> FALSE, loading |-> TRUE, result |-> TRUE, error |-> TRUE]

ClientIdle ==
  /\ hidden = PageLoaded
  /\ transcript = <<>>
  /\ errorMessage = ""
  /\ copyLabel = "Copy text"
  /\ transcribes = [r \in ClientRequests |-> "none"]
  /\ copies = 0
  /\ timers = 0
  /\ dialog = FALSE

\* Calls of transcribeLocal in one process.
Callers == 1 .. MaxCallers

\* let transcriberPromise = null
NoPromise == 0

\* The locals of a transcribeLocal call not yet made; found is what the
\* test in getTranscriber saw.
NoLocals ==
  [pc |-> "idle", transcriber |-> NoPromise, found |-> "none", chunks |-> 0,
   texts |-> <<>>, result |-> <<>>]

WhisperIdle ==
  /\ transcriberPromise = NoPromise
  /\ pipelines = [p \in Callers |-> "none"]
  /\ locals = [c \in Callers |-> NoLocals]

\* The temp directory may hold a file left by an earlier request.
ReqInit ==
  /\ mode \in Modes
  /\ apiKey \in BOOLEAN
  /\ req = [hasFile |-> FALSE, extOk |-> FALSE, size |-> 0]
  /\ pc = "start"
  /\ filePath = FALSE
  /\ disk \in {[p \in {} |-> 0], [p \in {OtherTemp} |-> 1]}
  /\ disk0 = DOMAIN disk
  /\ text = <<>>
  /\ err = NoErr
  /\ responses = <<>>
  /\ caller = "none"
  /\ tfPath = UploadPath
  /\ segments = <<>>
  /\ start = 0
  /\ duration = 0
  /\ segDur = 0
  /\ texts = <<>>
  /\ idx = 1
  /\ del = 1
  /\ tlfResult = <<>>
  /\ calls = NoCalls
  /\ netLog = <<>>
  /\ segArgs = <<>>
  /\ answers = <<>>
  /\ unlinkLog = <<>>
  /\ child = {}
  /\ lwPromise = "none"
  /\ lwSettles = 0
  /\ lwCause = NoCause
  /\ lwMessage = "none"

\* One request, with no other request, no page and no transcribeLocal call.
Init == ReqInit /\ JobsIdle /\ ClientIdle /\ WhisperIdle

\* No request of its own: the server as it stands while the other parts run.
ReqIdle == ReqInit /\ mode = "api" /\ apiKey /\ disk0 = {}

\* ---------------------------------------------------------- pure functions
Min(a, b) == IF a <= b THEN a ELSE b

\* String.prototype.trim
IsSpace(c) == c \in {" ", "\n"}

RECURSIVE TrimStart(_)
TrimStart(s) ==
  IF s = <<>> THEN s
  ELSE IF IsSpace(Head(s)) THEN TrimStart(Tail(s)) ELSE s

RECURSIVE TrimEnd(_)
TrimEnd(s) ==
  IF s = <<>> THEN s
  ELSE IF IsSpace(s[Len(s)]) THEN TrimEnd(SubSeq(s, 1, Len(s) - 1)) ELSE s

Trim(s) == TrimEnd(TrimStart(s))

\* a || b on strings: the empty string is falsy
OrElse(a, b) == IF a = <<>> THEN b ELSE a

\* texts.filter(Boolean)
RECURSIVE FilterBoolean(_)
FilterBoolean(ts) ==
  IF ts = <<>> THEN <<>>
  ELSE IF Head(ts) = <<>> THEN FilterBoolean(Tail(ts))
       ELSE <<Head(ts)>> \o FilterBoolean(Tail(ts))

\* Array.prototype.join('\n\n')
RECURSIVE JoinBlank(_)
JoinBlank(ts) ==
  IF ts = <<>> THEN <<>>
  ELSE IF Len(ts) = 1 THEN ts[1]
       ELSE ts[1] \o <<"\n", "\n">> \o JoinBlank(Tail(ts))

\* result.text?.trim() || ''
SegmentText(ans) == IF ans.defined THEN OrElse(Trim(ans.text), <<>>) ELSE <<>>

\* Mutant: empty texts are joined in like the others.
JoinTextsKeepEmpty(ts) == OrElse(JoinBlank(ts), Sentinel)

\* texts.filter(Boolean).join('\n\n') || '(No speech detected)'
JoinTexts(ts) == OrElse(JoinBlank(FilterBoolean(ts)), Sentinel)

\* transcription.text || '(No speech detected)'
SingleText(ans) == IF ans.defined THEN OrElse(ans.text, Sentinel) ELSE Sentinel

\* Mutant: the last segment is not clamped to what is left.
SegDurationUnclamped(st, dur) == SegmentTicks

\* Mutant: the length is taken from the wrong end, so that a first segment
\* of a short file is empty.
SegDurationFromStart(st, dur) == Min(SegmentTicks, st)

\* Math.min(SEGMENT_DURATION_SEC, duration - start)
SegDuration(st, dur) == Min(SegmentTicks, dur - st)

\* Mutant: the size is checked against the upload ceiling.
TooLargeForUpload(size) == size > MAX_FILE_SIZE

\* stat.size > WHISPER_MAX_SIZE
TooLarge(size) == size > WHISPER_MAX_SIZE

\* Mutant: a file of exactly the limit is sent down the segmented path.
FitsRemoteStrict(size) == size < WHISPER_MAX_SIZE

\* fileSize <= WHISPER_MAX_SIZE
FitsRemote(size) == size <= WHISPER_MAX_SIZE

\* Mutant: the whole-audio render is left out of the cleanup.
ToDeleteSegmentsOnly(segs) == segs

\* Mutant: the uploaded input file is cleaned up with the renders.
ToDeleteWithInput(segs) == <<UploadPath, AudioPath>> \o segs

\* [audioPath, ...segments]
ToDelete(segs) == <<AudioPath>> \o segs

\* The status the catch block of the handler answers with.
CatchStatus(e) ==
  IF e.ffmpeg THEN 500
  ELSE IF e.status = 401 THEN 401
  ELSE IF e.status = 429 THEN 429
  ELSE IF \/ e.name = "APIConnectionError"
          \/ e.cause \in {"ECONNRESET", "ETIMEDOUT", "ENOTFOUND"} THEN 503
  ELSE IF e.code = "LIMIT_FILE_SIZE" THEN 400
  ELSE IF e.badType THEN 400
  ELSE 500

\* The status the app-level error handler answers with.
MiddlewareStatus(e) == IF e.code = "LIMIT_FILE_SIZE" THEN 400 ELSE 500

\* ------------------------------------------------------------------- files
WriteFile(d, p, size) ==
  [q \in DOMAIN d \cup {p} |-> IF q = p THEN size ELSE d[q]]

RemoveFile(d, p) == [q \in DOMAIN d \ {p} |-> d[q]]

ErrorBody(status) == [status |-> status, kind |-> "error", text |-> <<>>]
TextBody(t) == [status |-> 200, kind |-> "text", text |-> t]

Requests ==
  {[hasFile |-> FALSE, extOk |-> FALSE, size |-> 0]}
  \cup [hasFile : {TRUE}, extOk : BOOLEAN, size : UploadSizes]

\* ----------------------------------------------------------------- actions
\* upload.single('video'): fileFilter, the size limit, diskStorage.
Multer ==
  /\ pc = "start"
  /\ \E r \in Requests :
       /\ req' = r
       /\ IF r.hasFile /\ ~r.extOk
            THEN /\ err' = FileTypeError
                 /\ pc' = "errmw"
                 /\ disk' = disk
          ELSE IF r.hasFile /\ r.size > MAX_FILE_SIZE
            THEN /\ err' = FileSizeError
                 /\ pc' = "errmw"
                 /\ disk' = disk
          ELSE /\ err' = err
               /\ pc' = "route"
               /\ disk' = IF r.hasFile THEN WriteFile(disk, UploadPath, r.size)
                                       ELSE disk
  /\ UNCHANGED <<lwVars, mode, apiKey, disk0, filePath, text, responses, caller, tfPath,
                 tlfVars, histVars>>
  /\ UNCHANGED <<jobsVars, clientVars, whisperVars>>

\* app.use((err, req, res, next) => ...)
ErrorMiddleware ==
  /\ pc = "errmw"
  /\ responses' = Append(responses, ErrorBody(MiddlewareStatus(err)))
  /\ pc' = "done"
  /\ UNCHANGED <<lwVars, mode, apiKey, disk0, req, filePath, disk, text, err, caller, tfPath,
                 tlfVars, histVars>>
  /\ UNCHANGED <<jobsVars, clientVars, whisperVars>>

\* Mutant: the credential is demanded before the mode is looked at.
RouteKeyFirst(m, key, size) ==
  IF ~key THEN "nokey"
  ELSE IF m = "local" THEN "local"
  ELSE IF FitsRemote(size) THEN "single"
  ELSE "large"

\* The branch the handler takes for an uploaded file.
Route(m, key, size) ==
  IF m = "local" THEN "local"
  ELSE IF ~key THEN "nokey"
  ELSE IF FitsRemote(size) THEN "single"
  ELSE "large"

\* spawn(python, args): the child runs and closes, or fails to launch, which
\* emits 'error' and, depending on the runtime, 'close' after it.
SpawnOutcomes == {{"close"}, {"error"}, {"error", "close"}}

\* The handler from its entry to its first await (or early return).
RouteEntry ==
  /\ pc = "route"
  /\ IF ~req.hasFile
       THEN /\ responses' = Append(responses, ErrorBody(400))
            /\ pc' = "finally"
            /\ UNCHANGED <<filePath, caller, tfPath, calls, child, lwPromise>>
     ELSE /\ filePath' = TRUE
          /\ CASE Route(mode, apiKey, req.size) = "local" ->
                    /\ calls' = Called("runLocalWhisper")
                    /\ child' \in SpawnOutcomes
                    /\ lwPromise' = "pending"
                    /\ pc' = "local"
                    /\ UNCHANGED <<responses, caller, tfPath>>
               [] Route(mode, apiKey, req.size) = "nokey" ->
                    /\ responses' = Append(responses, ErrorBody(500))
                    /\ pc' = "finally"
                    /\ UNCHANGED <<caller, tfPath, calls, child, lwPromise>>
               [] Route(mode, apiKey, req.size) = "single" ->
                    /\ caller' = "single"
                    /\ tfPath' = UploadPath
                    /\ calls' = Called("transcribeFile")
                    /\ pc' = "tf_stat"
                    /\ UNCHANGED <<responses, child, lwPromise>>
               [] OTHER ->
                    /\ calls' = [calls EXCEPT !.transcribeLargeFile = @ + 1,
                                              !.extractAudio = @ + 1]
                    /\ pc' = "extractAudio"
                    /\ UNCHANGED <<responses, caller, tfPath, child, lwPromise>>
  /\ UNCHANGED <<lwSettles, lwCause, lwMessage, mode, apiKey, disk0, req, disk,
                 text, err, tlfVars, netLog, segArgs, answers, unlinkLog>>
  /\ UNCHANGED <<jobsVars, clientVars, whisperVars>>

\* The message of the rejection for a non-zero exit code.
CloseMessage(diag) ==
  CASE diag = "empty" -> "generic"
    [] diag = "jsonError" -> "stderrError"
    [] diag = "noModule" -> "packagesMissing"
    [] OTHER -> "stderr"

\* child.on('close'): the settle call the handler makes.
CloseSettle(code, out, diag) ==
  IF code # 0
    THEN [how |-> "reject", text |-> <<>>, message |-> CloseMessage(diag),
          ffmpeg |-> (diag = "textFfmpeg")]
  ELSE IF out.kind = "object"
    THEN [how |-> "resolve", text |-> SingleText(out.ans), message |-> "none",
          ffmpeg |-> FALSE]
  ELSE IF out.kind = "scalar"
    THEN [how |-> "resolve", text |-> Sentinel, message |-> "none",
          ffmpeg |-> FALSE]
  ELSE [how |-> "reject", text |-> <<>>, message |-> "invalidOutput",
        ffmpeg |-> FALSE]

\* child.on('error'): the launch failed; reject, which settles the promise
\* if it is still pending and resumes the handler.
ChildError ==
  /\ "error" \in child
  /\ child' = child \ {"error"}
  /\ lwSettles' = lwSettles + 1
  /\ IF lwPromise = "pending"
       THEN /\ lwPromise' = "rejected"
            /\ lwMessage' = "launch"
            /\ lwCause' = [NoCause EXCEPT !.event = "error"]
            /\ err' = Err("local", FALSE, 0, "Error", "none", "none", FALSE)
            /\ pc' = "catch"
       ELSE UNCHANGED <<lwPromise, lwMessage, lwCause, err, pc>>
  /\ UNCHANGED <<mode, apiKey, disk0, req, filePath, disk, text, responses,
                 caller, tfPath, tlfVars, histVars>>
  /\ UNCHANGED <<jobsVars, clientVars, whisperVars>>

\* What 'close' reports: anything after a run, a failure code and no output
\* after a failed launch.
CloseReports ==
  IF lwCause.event = "error"
    THEN {[code |-> 1, out |-> [kind |-> "garbage", ans |-> NoAnswer],
           diag |-> "empty"]}
    ELSE [code : ExitCodes, out : Stdouts, diag : Stderrs]

\* child.on('close'): resolve or reject, which settles the promise if it is
\* still pending and resumes the handler.
ChildClose ==
  /\ "close" \in child
  /\ "error" \notin child
  /\ child' = child \ {"close"}
  /\ lwSettles' = lwSettles + 1
  /\ \E r \in CloseReports :
       LET s == CloseSettle(r.code, r.out, r.diag) IN
         IF lwPromise = "pending"
           THEN /\ lwPromise' = (IF s.how = "resolve" THEN "resolved" ELSE "rejected")
                /\ lwMessage' = s.message
                /\ lwCause' = [event |-> "close", code |-> r.code, out |-> r.out,
                               diag |-> r.diag]
                /\ IF s.how = "resolve"
                     THEN /\ text' = s.text
                          /\ pc' = "respond"
                          /\ err' = err
                     ELSE /\ err' = Err("local", s.ffmpeg, 0, "Error", "none",
                                        "none", FALSE)
                          /\ pc' = "catch"
                          /\ text' = text
           ELSE UNCHANGED <<lwPromise, lwMessage, lwCause, text, err, pc>>
  /\ UNCHANGED <<mode, apiKey, disk0, req, filePath, disk, responses, caller,
                 tfPath, tlfVars, histVars>>
  /\ UNCHANGED <<jobsVars, clientVars, whisperVars>>

\* Mutant: a failed segment is tried again instead of ending the job.
ThrowTargetRetry(c) == IF c = "single" THEN "catch" ELSE "for"

\* A throw out of transcribeFile lands in the caller's catch or finally.
ThrowTarget(c) == IF c = "single" THEN "catch" ELSE "tlf_finally"

\* transcribeFile: fs.stat, the size check, then the request is issued.
TfStat ==
  /\ pc = "tf_stat"
  /\ IF tfPath \notin DOMAIN disk
       THEN /\ err' = StatError
            /\ pc' = ThrowTarget(caller)
            /\ netLog' = netLog
     ELSE IF TooLarge(disk[tfPath])
       THEN /\ err' = TooLargeError
            /\ pc' = ThrowTarget(caller)
            /\ netLog' = netLog
     ELSE /\ netLog' = Append(netLog, [path |-> tfPath, size |-> disk[tfPath]])
          /\ pc' = "tf_net"
          /\ err' = err
  /\ UNCHANGED <<lwVars, mode, apiKey, disk0, req, filePath, disk, text, responses, caller,
                 tfPath, tlfVars, calls, segArgs, answers, unlinkLog>>
  /\ UNCHANGED <<jobsVars, clientVars, whisperVars>>

\* openai.audio.transcriptions.create settles (its retries are inside it).
TfNetSettle ==
  /\ pc = "tf_net"
  /\ \/ \E ans \in Answers :
          /\ answers' = Append(answers, ans)
          /\ err' = err
          /\ IF caller = "single"
               THEN /\ text' = SingleText(ans)
                    /\ pc' = "respond"
                    /\ UNCHANGED <<texts, idx>>
               ELSE /\ texts' = Append(texts, SegmentText(ans))
                    /\ idx' = idx + 1
                    /\ pc' = "for"
                    /\ text' = text
     \/ \E e \in RemoteErrors :
          /\ err' = e
          /\ pc' = ThrowTarget(caller)
          /\ UNCHANGED <<text, texts, idx, answers>>
  /\ UNCHANGED <<lwVars, mode, apiKey, disk0, req, filePath, disk, responses, caller, tfPath,
                 segments, start, duration, segDur, del, tlfResult, calls,
                 netLog, segArgs, unlinkLog>>
  /\ UNCHANGED <<jobsVars, clientVars, whisperVars>>

\* Size of the whole-audio render.
AudioSizes == {WHISPER_MAX_SIZE + 1}

\* extractAudio settles: ffmpeg ended, or failed before or after writing.
ExtractAudioSettle ==
  /\ pc = "extractAudio"
  /\ \/ \E size \in AudioSizes :
          /\ disk' = WriteFile(disk, AudioPath, size)
          /\ calls' = Called("getDuration")
          /\ pc' = "probe"
          /\ err' = err
     \/ \E e \in ExtractionErrors, partial \in BOOLEAN :
          /\ disk' = IF partial THEN WriteFile(disk, AudioPath, 1) ELSE disk
          /\ err' = e
          /\ pc' = "tlf_finally"
          /\ calls' = calls
  /\ UNCHANGED <<lwVars, mode, apiKey, disk0, req, filePath, text, responses, caller, tfPath,
                 tlfVars, netLog, segArgs, answers, unlinkLog>>
  /\ UNCHANGED <<jobsVars, clientVars, whisperVars>>

\* getDuration settles: data.format.duration || 0, or the probe failed.
GetDurationSettle ==
  /\ pc = "probe"
  /\ \/ \E d \in Durations :
          /\ duration' = d
          /\ start' = 0
          /\ calls' = Called("plan")
          /\ pc' = "while"
          /\ err' = err
     \/ \E e \in ProbeErrors :
          /\ err' = e
          /\ pc' = "tlf_finally"
          /\ UNCHANGED <<duration, start, calls>>
  /\ UNCHANGED <<lwVars, mode, apiKey, disk0, req, filePath, disk, text, responses, caller,
                 tfPath, segments, segDur, texts, idx, del, tlfResult, netLog,
                 segArgs, answers, unlinkLog>>
  /\ UNCHANGED <<jobsVars, clientVars, whisperVars>>

\* The head of the while loop, up to the extractSegment call.
WhileStep ==
  /\ pc = "while"
  /\ IF start < duration
       THEN /\ segDur' = SegDuration(start, duration)
            /\ segArgs' = Append(segArgs,
                 [path |-> SegPath(Len(segments)), start |-> start,
                  length |-> SegDuration(start, duration)])
            /\ calls' = Called("extractSegment")
            /\ pc' = "extractSeg"
       ELSE /\ pc' = "for"
            /\ UNCHANGED <<segDur, segArgs, calls>>
  /\ UNCHANGED <<lwVars, mode, apiKey, disk0, req, filePath, disk, text, err, responses,
                 caller, tfPath, segments, start, duration, texts, idx, del,
                 tlfResult, netLog, answers, unlinkLog>>
  /\ UNCHANGED <<jobsVars, clientVars, whisperVars>>

\* extractSegment settles; on success segments.push and start += segDuration.
ExtractSegmentSettle ==
  /\ pc = "extractSeg"
  /\ \/ \E size \in SegSizes :
          /\ disk' = WriteFile(disk, SegPath(Len(segments)), size)
          /\ segments' = Append(segments, SegPath(Len(segments)))
          /\ start' = start + segDur
          /\ pc' = "while"
          /\ err' = err
     \/ \E e \in ExtractionErrors, partial \in BOOLEAN :
          /\ disk' = IF partial
                       THEN WriteFile(disk, SegPath(Len(segments)), 1)
                       ELSE disk
          /\ err' = e
          /\ pc' = "tlf_finally"
          /\ UNCHANGED <<segments, start>>
  /\ UNCHANGED <<lwVars, mode, apiKey, disk0, req, filePath, text, responses, caller, tfPath,
                 duration, segDur, texts, idx, del, tlfResult, histVars>>
  /\ UNCHANGED <<jobsVars, clientVars, whisperVars>>

\* The head of the for loop: the next transcribeFile call, or the return.
ForStep ==
  /\ pc = "for"
  /\ IF idx <= Len(segments)
       THEN /\ caller' = "large"
            /\ tfPath' = segments[idx]
            /\ calls' = Called("transcribeFile")
            /\ pc' = "tf_stat"
            /\ tlfResult' = tlfResult
       ELSE /\ tlfResult' = JoinTexts(texts)
            /\ pc' = "tlf_finally"
            /\ UNCHANGED <<caller, tfPath, calls>>
  /\ UNCHANGED <<lwVars, mode, apiKey, disk0, req, filePath, disk, text, err, responses,
                 segments, start, duration, segDur, texts, idx, del, netLog,
                 segArgs, answers, unlinkLog>>
  /\ UNCHANGED <<jobsVars, clientVars, whisperVars>>

\* fs.unlink(p): removes p, or fails (always when p is not there).
Unlinked(d, p, ok) == IF ok THEN RemoveFile(d, p) ELSE d

UnlinkOutcomes(d, p) == IF p \in DOMAIN d THEN BOOLEAN ELSE {FALSE}

\* fs.unlink rejected
UnlinkError == Err("unlink", FALSE, 0, "Error", "none", "EPERM", FALSE)

\* Mutant: a refused removal replaces the error in flight.
AfterUnlinkPropagates(e, ok) == IF ok THEN e ELSE UnlinkError

\* try { await fs.unlink(p) } catch (_) {}: the error in flight afterwards.
AfterUnlink(e, ok) == e

\* One turn of the loop in transcribeLargeFile's finally block.
TlfUnlink ==
  /\ pc = "tlf_finally"
  /\ del <= Len(ToDelete(segments))
  /\ LET p == ToDelete(segments)[del] IN
       \E ok \in UnlinkOutcomes(disk, p) :
         /\ disk' = Unlinked(disk, p, ok)
         /\ unlinkLog' = Append(unlinkLog, [path |-> p, ok |-> ok])
         /\ err' = AfterUnlink(err, ok)
  /\ del' = del + 1
  /\ UNCHANGED <<lwVars, mode, apiKey, disk0, req, pc, filePath, text, responses, caller,
                 tfPath, segments, start, duration, segDur, texts, idx,
                 tlfResult, calls, netLog, segArgs, answers>>
  /\ UNCHANGED <<jobsVars, clientVars, whisperVars>>

\* transcribeLargeFile returns its transcript or rethrows.
TlfReturn ==
  /\ pc = "tlf_finally"
  /\ del > Len(ToDelete(segments))
  /\ IF err = NoErr
       THEN /\ text' = tlfResult
            /\ pc' = "respond"
       ELSE /\ pc' = "catch"
            /\ text' = text
  /\ UNCHANGED <<lwVars, mode, apiKey, disk0, req, filePath, disk, err, responses, caller,
                 tfPath, tlfVars, histVars>>
  /\ UNCHANGED <<jobsVars, clientVars, whisperVars>>

\* res.json({ text })
Respond ==
  /\ pc = "respond"
  /\ responses' = Append(responses, TextBody(text))
  /\ pc' = "finally"
  /\ UNCHANGED <<lwVars, mode, apiKey, disk0, req, filePath, disk, text, err, caller, tfPath,
                 tlfVars, histVars>>
  /\ UNCHANGED <<jobsVars, clientVars, whisperVars>>

\* The handler's catch block.
Catch ==
  /\ pc = "catch"
  /\ responses' = Append(responses, ErrorBody(CatchStatus(err)))
  /\ pc' = "finally"
  /\ UNCHANGED <<lwVars, mode, apiKey, disk0, req, filePath, disk, text, err, caller, tfPath,
                 tlfVars, histVars>>
  /\ UNCHANGED <<jobsVars, clientVars, whisperVars>>

\* Mutant: the upload is removed only when the pipeline was started.
MustUnlinkIfPipelineRan(fp) == fp /\ (mode = "local" \/ apiKey)

\* if (filePath)
MustUnlink(fp) == fp

\* The handler's finally block: the upload is unlinked when filePath is set.
Finally ==
  /\ pc = "finally"
  /\ IF MustUnlink(filePath)
       THEN \E ok \in UnlinkOutcomes(disk, UploadPath) :
              /\ disk' = Unlinked(disk, UploadPath, ok)
              /\ unlinkLog' = Append(unlinkLog, [path |-> UploadPath, ok |-> ok])
       ELSE UNCHANGED <<disk, unlinkLog>>
  /\ pc' = "done"
  /\ UNCHANGED <<lwVars, mode, apiKey, disk0, req, filePath, text, err, responses, caller,
                 tfPath, tlfVars, calls, netLog, segArgs, answers>>
  /\ UNCHANGED <<jobsVars, clientVars, whisperVars>>

Next ==
  \/ Multer
  \/ ErrorMiddleware
  \/ RouteEntry
  \/ ChildError
  \/ ChildClose
  \/ TfStat
  \/ TfNetSettle
  \/ ExtractAudioSettle
  \/ GetDurationSettle
  \/ WhileStep
  \/ ExtractSegmentSettle
  \/ ForStep
  \/ TlfUnlink
  \/ TlfReturn
  \/ Respond
  \/ Catch
  \/ Finally

Spec == Init /\ [][Next]_vars

\* ------------------------------------------------------------------ claims
Range(q) == {q[i] : i \in DOMAIN q}

\* transcribeLargeFile was entered and has returned or thrown.
TlfSettled ==
  calls.transcribeLargeFile = 1 /\ pc \in {"respond", "catch", "finally", "done"}

\* The operating system refused to remove p when the cleanup asked.
Refused(p) == [path |-> p, ok |-> FALSE] \in Range(unlinkLog)

\* No temporary file of the job is left, but for refused removals.
TempsRemoved == \A p \in DOMAIN disk : IsJobTemp(p) => Refused(p)

\* C1: once transcribeLargeFile has returned or thrown, whatever step failed,
\* no temporary file the job wrote is on disk any more (a file whose removal
\* the operating system refused aside), a file written by an extraction that
\* then failed included.
C1_NoTempFileLeft == TlfSettled => TempsRemoved

\* transcribeFile threw while called for a segment.
SegmentFailed == caller = "large" /\ err # NoErr

\* C2: when the transcription of a segment fails, no call is made for any
\* later segment (the failed call stays the last one), no transcript is
\* answered, and once transcribeLargeFile has thrown its temporary files are
\* removed (a refused removal aside).
C2_FailedSegmentAborts ==
  SegmentFailed =>
    /\ calls.transcribeFile = idx
    /\ Len(netLog) <= idx
    /\ Len(texts) = idx - 1
    /\ pc \in {"tlf_finally", "catch", "finally", "done"}
    /\ \A i \in DOMAIN responses : responses[i].kind = "error"
    /\ (pc # "tlf_finally") => TempsRemoved
    /\ (pc = "done") => Len(responses) = 1

\* Segment 1 of 2 failed and the request is over.
C2_Witness ==
  /\ SegmentFailed
  /\ pc = "done"
  /\ idx = 1
  /\ Len(segments) = 2
  /\ err.kind = "rate"

\* The request is a remote-mode upload at or under the remote limit.
SmallRemote ==
  /\ mode = "api" /\ apiKey
  /\ req.hasFile /\ req.extOk
  /\ req.size <= WHISPER_MAX_SIZE

\* C3: a remote-mode upload at or under the limit, with a credential, makes
\* one transcribeFile call and no extractAudio, getDuration, extractSegment
\* or planning, whether the call succeeds or fails.
C3_SmallFileSingleCall ==
  SmallRemote =>
    /\ calls.extractAudio = 0 /\ calls.getDuration = 0
    /\ calls.extractSegment = 0 /\ calls.plan = 0
    /\ calls.transcribeLargeFile = 0
    /\ calls.transcribeFile = (IF pc \in {"start", "route"} THEN 0 ELSE 1)
    /\ Len(netLog) <= 1

\* An upload of exactly the limit went single-shot and the call failed.
C3_Witness ==
  /\ SmallRemote
  /\ req.size = WHISPER_MAX_SIZE
  /\ pc = "done"
  /\ err.kind = "auth"
  /\ Len(netLog) = 1

\* The segmented path ran to the end and no step of it failed.
LargeRunClean ==
  /\ calls.transcribeLargeFile = 1
  /\ pc \in {"respond", "finally", "done"}
  /\ err = NoErr
  /\ \A i \in DOMAIN unlinkLog : unlinkLog[i].ok

\* The temp directory's entries.
TempDir(paths) == {p \in paths : p[1] # "upload"}

\* C4: a remote-mode upload over the limit, when no step fails, makes one
\* extractAudio call, plans once, sends each planned segment once and in
\* plan order, and leaves the temp directory as it found it; while a
\* segment's request is in flight every earlier one has been answered.
C4_LargeFileCleanRun ==
  /\ (caller = "large" /\ pc = "tf_net") =>
       /\ Len(answers) = Len(netLog) - 1
       /\ netLog[Len(netLog)].path = SegPath(Len(netLog) - 1)
  /\ LargeRunClean =>
      /\ mode = "api" /\ req.size > WHISPER_MAX_SIZE
      /\ calls.extractAudio = 1 /\ calls.getDuration = 1 /\ calls.plan = 1
      /\ calls.extractSegment = Len(segArgs)
      /\ calls.transcribeFile = Len(segArgs)
      /\ Len(netLog) = Len(segArgs)
      /\ \A i \in DOMAIN netLog : netLog[i].path = segArgs[i].path
      /\ \A i \in DOMAIN segArgs : segArgs[i].path = SegPath(i - 1)
      /\ TempDir(DOMAIN disk) = TempDir(disk0)

\* Two segments were sent and the temp directory held a file beforehand.
C4_Witness ==
  /\ LargeRunClean
  /\ pc = "done"
  /\ Len(netLog) = 2
  /\ disk0 = {OtherTemp}

\* multer let the upload through to the handler.
Accepted == req.hasFile /\ req.extOk /\ req.size <= MAX_FILE_SIZE

\* C5: in local mode a request calls neither extractAudio, getDuration,
\* extractSegment, the planning loop nor transcribeFile, sends nothing to the
\* remote service and is not refused for a missing credential, whatever the
\* upload's size; runLocalWhisper is called once the handler has the file.
C5_LocalModeOnlyLocal ==
  mode = "local" =>
    /\ calls.extractAudio = 0 /\ calls.getDuration = 0
    /\ calls.extractSegment = 0 /\ calls.plan = 0
    /\ calls.transcribeLargeFile = 0 /\ calls.transcribeFile = 0
    /\ netLog = <<>>
    /\ calls.runLocalWhisper =
         (IF Accepted /\ pc \notin {"start", "route"} THEN 1 ELSE 0)

\* A local-mode upload over the remote limit, without a credential, was
\* transcribed.
C5_Witness ==
  /\ mode = "local" /\ ~apiKey
  /\ req.size > WHISPER_MAX_SIZE
  /\ pc = "done"
  /\ Len(responses) = 1 /\ responses[1].kind = "text"

\* C6: nothing over the remote limit is ever sent: every file sent is at or
\* under WHISPER_MAX_SIZE, a request is in flight only for a file that passed
\* the check, and a file over the limit ends transcribeFile with the
\* too-large error with nothing sent for it, no further call and no second
\* extraction.
C6_NeverSendOversize ==
  /\ \A i \in DOMAIN netLog : netLog[i].size <= WHISPER_MAX_SIZE
  /\ Len(netLog) <= calls.transcribeFile
  /\ (pc = "tf_net") =>
       /\ disk[tfPath] <= WHISPER_MAX_SIZE
       /\ netLog[Len(netLog)].path = tfPath
  /\ (err.kind = "tooLarge") =>
       /\ (tfPath \in DOMAIN disk) => disk[tfPath] > WHISPER_MAX_SIZE
       /\ \A i \in DOMAIN netLog : netLog[i].path # tfPath
       /\ Len(netLog) = calls.transcribeFile - 1
       /\ calls.extractSegment = Len(segments)
       /\ pc \in {"tlf_finally", "catch", "finally", "done"}

\* The second segment was over the limit after the first had been sent.
C6_Witness ==
  /\ err.kind = "tooLarge"
  /\ pc = "done"
  /\ Len(netLog) = 1
  /\ tfPath = SegPath(1)

CeilDiv(a, b) == (a + b - 1) \div b

RECURSIVE SumLengths(_)
SumLengths(q) == IF q = <<>> THEN 0 ELSE Head(q).length + SumLengths(Tail(q))

\* The while loop has run to its end.
PlanComplete == calls.plan = 1 /\ start >= duration

\* C7: the ranges handed to extractSegment start at 0, L, 2L, ..., none is
\* empty or reaches past the probed duration T, and once the loop has ended
\* there are ceil(T / L) of them (none for T = 0) and their lengths sum to T
\* (T and L in ticks).
C7_SegmentPlan ==
  /\ \A i \in DOMAIN segArgs :
       /\ segArgs[i].start = (i - 1) * SEGMENT_DURATION_SEC * TicksPerSec
       /\ segArgs[i].length > 0
       /\ segArgs[i].start + segArgs[i].length <= duration
  /\ PlanComplete =>
       /\ Len(segArgs) = CeilDiv(duration, SEGMENT_DURATION_SEC * TicksPerSec)
       /\ SumLengths(segArgs) = duration

\* A duration one tick over the segment length was planned.
C7_Witness ==
  /\ PlanComplete
  /\ duration = SEGMENT_DURATION_SEC * TicksPerSec + 1
  /\ Len(segArgs) = 2
  /\ segArgs[2].length = 1

\* What trimming leaves of s: from its first to its last non-blank character.
Trimmed(s) ==
  LET keep == {i \in 1..Len(s) : s[i] \notin {" ", "\n"}} IN
    IF keep = {} THEN <<>>
    ELSE SubSeq(s, CHOOSE i \in keep : \A j \in keep : i <= j,
                   CHOOSE i \in keep : \A j \in keep : i >= j)

NonEmpty(t) == t # <<>>

RECURSIVE JoinUpTo(_, _)
JoinUpTo(ts, n) ==
  IF n = 0 THEN <<>>
  ELSE IF n = 1 THEN ts[1]
  ELSE JoinUpTo(ts, n - 1) \o <<"\n", "\n">> \o ts[n]

\* The transcript the answers call for.
ExpectedTranscript(as) ==
  LET trimmed == [i \in 1..Len(as) |->
                    IF as[i].defined THEN Trimmed(as[i].text) ELSE <<>>]
      kept == SelectSeq(trimmed, NonEmpty)
  IN  IF kept = <<>> THEN Sentinel ELSE JoinUpTo(kept, Len(kept))

\* The segmented path returned a transcript.
LargeReturned ==
  /\ calls.transcribeLargeFile = 1
  /\ err = NoErr
  /\ pc \in {"tlf_finally", "respond", "finally", "done"}

\* C8: the transcript of the segmented path is the segments' texts in plan
\* order, each trimmed, the empty ones dropped, joined by a blank line, or
\* the sentinel when nothing is left; it is what the caller is answered.
C8_TranscriptIsOrderedJoin ==
  LargeReturned =>
    /\ Len(answers) = Len(segments)
    /\ tlfResult = ExpectedTranscript(answers)
    /\ (pc \in {"respond", "finally", "done"}) => text = tlfResult
    /\ (pc \in {"finally", "done"}) => responses = <<TextBody(tlfResult)>>

\* Two segments with speech were joined, in order, around a blank line.
C8_Witness ==
  /\ LargeReturned
  /\ pc = "done"
  /\ answers = <<[defined |-> TRUE, text |-> <<" ", "a", "\n">>],
                 [defined |-> TRUE, text |-> <<"b", " ", "b">>]>>
  /\ responses[1].text = <<"a", "\n", "\n", "b", " ", "b">>

\* C9: a request that failed because a file was over the remote limit is
\* answered { error } with status 400.
C9_OversizeAnswered400 ==
  (pc = "done" /\ err.kind = "tooLarge") => responses = <<ErrorBody(400)>>

\* The request was transcribed.
Succeeded == Accepted /\ err = NoErr /\ (mode = "local" \/ apiKey)

\* The status the failure in flight is to be answered with: 401, 429, 503 by
\* the class of the remote failure, 400 for a bad file type (and for a
\* missing or over-long upload), 500 for the rest.
ClaimedStatus ==
  CASE err.kind = "auth" -> 401
    [] err.kind = "rate" -> 429
    [] err.kind = "conn" -> 503
    [] err.kind = "fileType" -> 400
    [] err.kind = "fileSize" -> 400
    [] ~req.hasFile -> 400
    [] OTHER -> 500

\* C10: every request is answered once: { text } when it succeeded, and
\* otherwise { error } with the status of its failure's class.
C10_OneResponsePerOutcome ==
  (pc = "done") =>
    /\ Len(responses) = 1
    /\ IF Succeeded
         THEN responses[1].kind = "text" /\ responses[1].status = 200
         ELSE responses[1] = ErrorBody(ClaimedStatus)

\* transcribeLargeFile is in its finally block or past it.
TlfInCleanup ==
  /\ calls.transcribeLargeFile = 1
  /\ pc \in {"tlf_finally", "respond", "catch", "finally", "done"}

\* The failure the try block of transcribeLargeFile ended with, read off the
\* calls it made: "none" when every step succeeded.
TryOutcomeKinds ==
  IF calls.getDuration = 0 THEN {"extraction"}
  ELSE IF calls.plan = 0 THEN {"probe"}
  ELSE IF start < duration THEN {"extraction"}
  ELSE IF Len(netLog) < calls.transcribeFile THEN {"tooLarge", "stat"}
  ELSE IF Len(answers) < Len(netLog) THEN {"auth", "rate", "conn", "remoteOther"}
  ELSE {"none"}

\* The removals the finally block of transcribeLargeFile has asked for.
TlfUnlinks == SelectSeq(unlinkLog, LAMBDA u : u.path # UploadPath)

\* C11: a refused removal changes neither the transcript nor the error of
\* transcribeLargeFile: the outcome is the one its try block ended with; and
\* each of the audio render and the segment renders is asked to be removed,
\* in order, whatever the earlier removals did.
C11_CleanupNeverChangesOutcome ==
  TlfInCleanup =>
    /\ err.kind \in TryOutcomeKinds
    /\ (err = NoErr) => tlfResult = ExpectedTranscript(answers)
    /\ (pc = "respond") => (err = NoErr /\ text = tlfResult)
    /\ (pc = "catch") => err # NoErr
    /\ Len(TlfUnlinks) = del - 1
    /\ \A i \in DOMAIN TlfUnlinks :
         TlfUnlinks[i].path = (<<AudioPath>> \o segments)[i]
    /\ (pc # "tlf_finally") => Len(TlfUnlinks) = Len(segments) + 1

\* The first removal was refused, the next was made, and the rate-limit
\* failure of the try block is what transcribeLargeFile threw.
C11_Witness ==
  /\ TlfInCleanup
  /\ pc = "catch"
  /\ err.kind = "rate"
  /\ Len(unlinkLog) = 3
  /\ ~unlinkLog[1].ok /\ unlinkLog[2].ok /\ ~unlinkLog[3].ok

\* C12: transcribeLargeFile, transcribeFile and runLocalWhisper leave the
\* uploaded file in place and unchanged until the handler's own finally
\* block; the paths transcribeLargeFile asks to remove are the audio render
\* and the segment renders it made, and what it removes it had written.
C12_InputFileLeftToCaller ==
  /\ (Accepted /\ pc \notin {"start", "done"}) =>
       /\ UploadPath \in DOMAIN disk
       /\ disk[UploadPath] = req.size
       /\ \A i \in DOMAIN unlinkLog : unlinkLog[i].path # UploadPath
  /\ \A i \in DOMAIN unlinkLog :
       unlinkLog[i].path # UploadPath => IsJobTemp(unlinkLog[i].path)
  /\ TlfSettled =>
       {TlfUnlinks[i].path : i \in DOMAIN TlfUnlinks}
         = {AudioPath} \cup Range(segments)
  /\ disk0 \subseteq DOMAIN disk

\* The segmented path has cleaned up two segments and the audio render, and
\* the upload is still there for the handler to remove.
C12_Witness ==
  /\ TlfSettled
  /\ pc = "finally"
  /\ Len(segments) = 2
  /\ \A i \in DOMAIN unlinkLog : unlinkLog[i].ok
  /\ DOMAIN disk = {UploadPath} \cup disk0

\* The rejection's message carries what the child (or the launch) reported:
\* the error field or the text of its standard error, or the launch error;
\* the fixed message stands in only when the child reported nothing.
CarriesDiagnostic ==
  \/ lwMessage \in {"stderrError", "stderr", "launch"}
  \/ lwMessage = "generic" /\ lwCause.diag = "empty"

\* C14: the promise of runLocalWhisper settles once; it resolves only when
\* the child exited with code 0 and its standard output parsed as a JSON
\* object; a non-zero exit, unparseable output or a failed launch rejects it
\* with an error that carries the child's diagnostic text.
C14_LocalTranscriptOnlyOnCleanExit ==
  /\ lwPromise \in {"none", "pending", "resolved", "rejected"}
  /\ (lwPromise = "pending") <=> (pc = "local")
  /\ (lwPromise = "resolved") =>
       /\ lwCause.event = "close"
       /\ lwCause.code = 0
       /\ lwCause.out.kind = "object"
  /\ (lwPromise = "rejected") => CarriesDiagnostic

\* The text answered to the caller has a character that is no white space.
HasSpeech(t) == Trimmed(t) # <<>>

\* C15: whatever path produced it (local, single-shot, segmented), the text
\* answered on success is never empty or white space only.
C15_AnsweredTextNeverBlank ==
  \A i \in DOMAIN responses :
    responses[i].kind = "text" => HasSpeech(responses[i].text)

\* The removals of the uploaded file that have been asked for.
UploadUnlinks == SelectSeq(unlinkLog, LAMBDA u : u.path = UploadPath)

\* C17: when the handler received a file it asks once for the upload's
\* removal, on every way out (answer sent, failure answered, missing
\* credential), after the pipeline has settled and the answer is out; the
\* removal's failure leaves the one answer as it was.
C17_UploadRemovedOnceOnEveryExit ==
  /\ Len(UploadUnlinks) = (IF Accepted /\ pc = "done" THEN 1 ELSE 0)
  /\ (Len(UploadUnlinks) = 1) =>
       /\ unlinkLog[Len(unlinkLog)].path = UploadPath
       /\ lwPromise # "pending"
       /\ Len(netLog) \in {Len(answers), Len(answers) + 1}
       /\ (calls.transcribeLargeFile = 1) => del = Len(segments) + 2
       /\ Len(responses) = 1

\* The credential was missing, the answer is 500 and the removal of the
\* upload was asked for and refused.
C17_Witness ==
  /\ pc = "done"
  /\ mode = "api" /\ ~apiKey
  /\ UploadUnlinks = <<[path |-> UploadPath, ok |-> FALSE]>>
  /\ responses = <<ErrorBody(500)>>

\* Segments the while loop has still to cut.
SegmentsLeft == CeilDiv(duration - start, SegmentTicks)

\* More than any count of steps left within one phase of a request.
PhaseSpan == 3 * MaxSegs + 6

\* Steps a request has at most left to take: the phases of the handler in
\* order, and within the loops what each still has to go through.
Rank ==
  Cardinality(child) +
  CASE pc = "start" -> 5 * PhaseSpan + 1
    [] pc = "route" -> 5 * PhaseSpan
    [] pc = "extractAudio" -> 4 * PhaseSpan + 1
    [] pc = "probe" -> 4 * PhaseSpan
    [] pc = "while" -> 3 * PhaseSpan + 2 * SegmentsLeft + 1
    [] pc = "extractSeg" -> 3 * PhaseSpan + 2 * SegmentsLeft
    [] pc = "for" -> 2 * PhaseSpan + 3 * (Len(segments) - idx + 1) + 3
    [] pc = "tf_stat" /\ caller = "large" ->
         2 * PhaseSpan + 3 * (Len(segments) - idx + 1) + 2
    [] pc = "tf_net" /\ caller = "large" ->
         2 * PhaseSpan + 3 * (Len(segments) - idx + 1) + 1
    [] pc = "tlf_finally" -> PhaseSpan + (Len(segments) + 2 - del)
    [] pc = "tf_stat" /\ caller = "single" -> 5
    [] pc = "tf_net" /\ caller = "single" -> 4
    [] pc = "local" -> 3
    [] pc \in {"respond", "catch", "errmw"} -> 2
    [] pc = "finally" -> 1
    [] OTHER -> 0

\* Every external call that is awaited completes or fails in the end.
LiveSpec == Spec /\ WF_vars(Next)

\* C16: every request comes to its end: a request that is not over can
\* always take a step, every step brings the end nearer (in the while loop
\* because start grows with each segment cut), the handler's finally block
\* is the last step of every request the handler took, and the end is
\* reached with one answer sent.
C16_EveryJobTerminates ==
  /\ [](pc = "done" \/ ENABLED Next)
  /\ [](Rank >= 0)
  /\ [][Rank' < Rank]_vars
  /\ [][(pc = "extractSeg" /\ pc' = "while") => start' > start]_vars
  /\ [][(pc # "done" /\ pc' = "done") => pc \in {"finally", "errmw"}]_vars
  /\ [](pc = "done" => Len(responses) = 1)
  /\ <>(pc = "done")

\* A request over two segments has come to its end, the upload removed.
C16_Witness ==
  /\ pc = "done"
  /\ Len(segments) = 2
  /\ Len(answers) = 2
  /\ unlinkLog[Len(unlinkLog)] = [path |-> UploadPath, ok |-> TRUE]

\* ------------------------------------------ two requests, one temp directory
\* const jobId = path.basename(filePath, path.extname(filePath)): the file
\* name without its extension
JobId(file) == file.stem

\* path.join(TEMP_DIR, `${jobId}-audio.mp3`)
JobAudioPath(file) == [kind |-> "audio", jobId |-> JobId(file), n |-> 0]

\* path.join(TEMP_DIR, `${jobId}-seg-${segments.length}.mp3`)
JobSegPath(file, n) == [kind |-> "seg", jobId |-> JobId(file), n |-> n]

\* const toDelete = [audioPath, ...segments]
JobToDelete(file, count) ==
  <<JobAudioPath(file)>> \o [i \in 1..count |-> JobSegPath(file, i - 1)]

\* A job's step on path p: it is noted as used, and as created when written.
Used(job, p) == [job EXCEPT !.touched = @ \cup {p}]
Wrote(job, p) == [Used(job, p) EXCEPT !.created = @ \cup {p}]

\* A failure inside the try block goes to the finally block.
Failed(job) == [job EXCEPT !.failed = TRUE, !.pc = "cleanup"]

\* multer has stored the upload under the name storage.filename made, the
\* handler has called transcribeLargeFile(filePath); plan is the number of
\* segments the duration will give.
JobUpload(j) ==
  /\ jobs[j].pc = "idle"
  /\ \E s \in Suffixes, e \in Exts, n \in 1..MaxSegs :
       jobs' = [jobs EXCEPT ![j] = [@ EXCEPT !.pc = "extractAudio",
                                             !.file = UploadName(s, e),
                                             !.plan = n]]
  /\ UNCHANGED tempDir
  /\ UNCHANGED <<reqVars, clientVars, whisperVars>>

\* await extractAudio(filePath, audioPath): ffmpeg writes audioPath (-y
\* semantics of save: an existing file is written over) or fails.
JobExtractAudio(j) ==
  /\ jobs[j].pc = "extractAudio"
  /\ \E ok \in BOOLEAN :
       IF ok
         THEN /\ jobs' = [jobs EXCEPT ![j] =
                            [Wrote(@, JobAudioPath(@.file)) EXCEPT !.pc = "probe"]]
              /\ tempDir' = tempDir \cup {JobAudioPath(jobs[j].file)}
         ELSE /\ jobs' = [jobs EXCEPT ![j] = Failed(@)]
              /\ UNCHANGED tempDir
  /\ UNCHANGED <<reqVars, clientVars, whisperVars>>

\* await getDuration(audioPath): ffprobe reads audioPath.
JobProbe(j) ==
  /\ jobs[j].pc = "probe"
  /\ LET p == JobAudioPath(jobs[j].file) IN
       jobs' = [jobs EXCEPT ![j] =
                  IF p \in tempDir THEN [Used(@, p) EXCEPT !.pc = "while"]
                  ELSE Failed(Used(@, p))]
  /\ UNCHANGED tempDir
  /\ UNCHANGED <<reqVars, clientVars, whisperVars>>

\* while (start < duration): await extractSegment(audioPath, segPath, ...);
\* segments.push(segPath).  ffmpeg reads audioPath and writes segPath.
JobExtractSegment(j) ==
  /\ jobs[j].pc = "while"
  /\ jobs[j].segments < jobs[j].plan
  /\ LET a == JobAudioPath(jobs[j].file)
         p == JobSegPath(jobs[j].file, jobs[j].segments) IN
       IF a \in tempDir
         THEN /\ jobs' = [jobs EXCEPT ![j] =
                            [Wrote(Used(@, a), p) EXCEPT !.segments = @ + 1]]
              /\ tempDir' = tempDir \cup {p}
         ELSE /\ jobs' = [jobs EXCEPT ![j] = Failed(Used(@, a))]
              /\ UNCHANGED tempDir
  /\ UNCHANGED <<reqVars, clientVars, whisperVars>>

\* The while loop is over.
JobWhileExit(j) ==
  /\ jobs[j].pc = "while"
  /\ jobs[j].segments = jobs[j].plan
  /\ jobs' = [jobs EXCEPT ![j] = [@ EXCEPT !.pc = "for", !.idx = 1]]
  /\ UNCHANGED tempDir
  /\ UNCHANGED <<reqVars, clientVars, whisperVars>>

\* for (const seg of segments): await transcribeFile(seg), which stats and
\* reads the segment file.
JobTranscribe(j) ==
  /\ jobs[j].pc = "for"
  /\ jobs[j].idx <= jobs[j].segments
  /\ LET p == JobSegPath(jobs[j].file, jobs[j].idx - 1) IN
       jobs' = [jobs EXCEPT ![j] =
                  IF p \in tempDir THEN [Used(@, p) EXCEPT !.idx = @ + 1]
                  ELSE Failed(Used(@, p))]
  /\ UNCHANGED tempDir
  /\ UNCHANGED <<reqVars, clientVars, whisperVars>>

\* The for loop is over: the return statement, then the finally block.
JobReturn(j) ==
  /\ jobs[j].pc = "for"
  /\ jobs[j].idx > jobs[j].segments
  /\ jobs' = [jobs EXCEPT ![j] = [@ EXCEPT !.pc = "cleanup"]]
  /\ UNCHANGED tempDir
  /\ UNCHANGED <<reqVars, clientVars, whisperVars>>

\* finally: for (const p of toDelete) try { await fs.unlink(p) } catch (_) {}
JobUnlink(j) ==
  /\ jobs[j].pc = "cleanup"
  /\ jobs[j].del <= jobs[j].segments + 1
  /\ LET p == JobToDelete(jobs[j].file, jobs[j].segments)[jobs[j].del] IN
       /\ jobs' = [jobs EXCEPT ![j] = [Used(@, p) EXCEPT !.del = @ + 1]]
       /\ tempDir' = tempDir \ {p}
  /\ UNCHANGED <<reqVars, clientVars, whisperVars>>

\* transcribeLargeFile has returned or thrown.
JobDone(j) ==
  /\ jobs[j].pc = "cleanup"
  /\ jobs[j].del > jobs[j].segments + 1
  /\ jobs' = [jobs EXCEPT ![j] = [@ EXCEPT !.pc = "done"]]
  /\ UNCHANGED tempDir
  /\ UNCHANGED <<reqVars, clientVars, whisperVars>>

JobsInit == ReqIdle /\ JobsIdle /\ ClientIdle /\ WhisperIdle

JobsNext ==
  \E j \in Jobs :
    \/ JobUpload(j)
    \/ JobExtractAudio(j)
    \/ JobProbe(j)
    \/ JobExtractSegment(j)
    \/ JobWhileExit(j)
    \/ JobTranscribe(j)
    \/ JobReturn(j)
    \/ JobUnlink(j)
    \/ JobDone(j)

SpecJobs == JobsInit /\ [][JobsNext]_vars

\* The two requests were stored under different upload paths.
DistinctUploads(j1, j2) ==
  /\ j1 # j2
  /\ jobs[j1].pc # "idle"
  /\ jobs[j2].pc # "idle"
  /\ jobs[j1].file # jobs[j2].file

\* C13: two concurrent requests in the segmented path whose upload paths
\* differ create disjoint sets of temp paths, and neither writes, reads or
\* deletes a temp path the other created.
C13_JobsNeverShareTempPaths ==
  \A j1, j2 \in Jobs :
    DistinctUploads(j1, j2) =>
      /\ jobs[j1].created \cap jobs[j2].created = {}
      /\ jobs[j1].touched \cap jobs[j2].created = {}

\* ------------------------------------------------------- the browser client
\* function hideAll()
hideAll(h) == [h EXCEPT !.result = TRUE, !.error = TRUE]

\* function showLoading(show)
showLoading(h, show) == [h EXCEPT !.content = show, !.loading = ~show]

\* function showResult(text), the hidden attributes it sets
showResult(h) == [hideAll(h) EXCEPT !.result = FALSE]

\* Mutant: the error section is shown without hiding the other section.
showErrorKeepResult(h) == [h EXCEPT !.error = FALSE]

\* function showError(msg), the hidden attributes it sets
showError(h) == [hideAll(h) EXCEPT !.error = FALSE]

\* data.text of a 2xx answer: missing, empty, or a text
ClientTexts == {[defined |-> FALSE, text |-> <<>>],
                [defined |-> TRUE, text |-> <<>>],
                [defined |-> TRUE, text |-> <<"a">>]}

\* text || '(No speech detected)'
ShownText(t) == IF t.defined THEN OrElse(t.text, Sentinel) ELSE Sentinel

\* data.error || 'Transcription failed', for an answer with and without an
\* error field
FailureMessages == {"server message", "Transcription failed"}

\* Calls of transcribe(file) whose fetch or res.json() is awaited.
InFlight == {r \in ClientRequests : transcribes[r] \in {"fetch", "json"}}

\* transcribe(file) up to its first await: hideAll(); showLoading(true);
\* fetch(...).  Calls take their numbers in the order they are made.
Transcribe(r) ==
  /\ transcribes[r] = "none"
  /\ \A q \in ClientRequests : q < r => transcribes[q] # "none"
  /\ hidden' = showLoading(hideAll(hidden), TRUE)
  /\ transcribes' = [transcribes EXCEPT ![r] = "fetch"]

\* What a click on the dropzone can hit: the dropzone itself, or whichever
\* of its two children is shown.
ClickTargets ==
  {"dropzone"} \cup (IF hidden.content THEN {} ELSE {"content"})
               \cup (IF hidden.loading THEN {} ELSE {"loading"})

\* dropzone click: the file dialog opens unless the loading element was hit.
Click ==
  /\ ~dialog
  /\ \E target \in ClickTargets : dialog' = (target # "loading")
  /\ UNCHANGED <<hidden, transcript, errorMessage, copyLabel, transcribes,
                 copies, timers>>
  /\ UNCHANGED <<reqVars, jobsVars, whisperVars>>

\* fileInput change: if (file) transcribe(file).
Change ==
  /\ dialog
  /\ dialog' = FALSE
  /\ \/ \E r \in ClientRequests : Transcribe(r)
     \/ UNCHANGED <<hidden, transcribes>>
  /\ UNCHANGED <<transcript, errorMessage, copyLabel, copies, timers>>
  /\ UNCHANGED <<reqVars, jobsVars, whisperVars>>

\* dropzone drop: if (file) transcribe(file), whatever the page is doing.
Drop ==
  /\ \E r \in ClientRequests : Transcribe(r)
  /\ UNCHANGED <<transcript, errorMessage, copyLabel, copies, timers, dialog>>
  /\ UNCHANGED <<reqVars, jobsVars, whisperVars>>

\* await fetch(...): an answer arrives, or the request fails and the catch
\* and finally blocks run.
FetchSettle(r) ==
  /\ transcribes[r] = "fetch"
  /\ \/ /\ transcribes' = [transcribes EXCEPT ![r] = "json"]
        /\ UNCHANGED <<hidden, errorMessage>>
     \/ /\ transcribes' = [transcribes EXCEPT ![r] = "done"]
        /\ hidden' = showLoading(showError(hidden), FALSE)
        /\ errorMessage' = "Failed to fetch"
  /\ UNCHANGED <<transcript, copyLabel, copies, timers, dialog>>
  /\ UNCHANGED <<reqVars, jobsVars, whisperVars>>

\* await res.json() and the rest of transcribe: showResult(data.text) for
\* a 2xx answer, showError for another answer or a body that is no JSON,
\* then showLoading(false).
JsonSettle(r) ==
  /\ transcribes[r] = "json"
  /\ transcribes' = [transcribes EXCEPT ![r] = "done"]
  /\ \/ \E t \in ClientTexts :
          /\ transcript' = ShownText(t)
          /\ hidden' = showLoading(showResult(hidden), FALSE)
          /\ UNCHANGED errorMessage
     \/ \E m \in FailureMessages \cup {"Unexpected token"} :
          /\ errorMessage' = m
          /\ hidden' = showLoading(showError(hidden), FALSE)
          /\ UNCHANGED transcript
  /\ UNCHANGED <<copyLabel, copies, timers, dialog>>
  /\ UNCHANGED <<reqVars, jobsVars, whisperVars>>

\* copyBtn click: navigator.clipboard.writeText(text) is awaited.
CopyClick ==
  /\ copies + timers < MaxCopies
  /\ copies' = copies + 1
  /\ UNCHANGED <<hidden, transcript, errorMessage, copyLabel, transcribes,
                 timers, dialog>>
  /\ UNCHANGED <<reqVars, jobsVars, whisperVars>>

\* The clipboard write settles: the label changes and a timer is set, or
\* showError('Could not copy to clipboard').
CopySettle ==
  /\ copies > 0
  /\ copies' = copies - 1
  /\ \/ /\ copyLabel' = "Copied!"
        /\ timers' = timers + 1
        /\ UNCHANGED <<hidden, errorMessage>>
     \/ /\ hidden' = showError(hidden)
        /\ errorMessage' = "Could not copy to clipboard"
        /\ UNCHANGED <<copyLabel, timers>>
  /\ UNCHANGED <<transcript, transcribes, dialog>>
  /\ UNCHANGED <<reqVars, jobsVars, whisperVars>>

\* setTimeout(() => (copyBtn.textContent = 'Copy text'), 2000)
CopyTimer ==
  /\ timers > 0
  /\ timers' = timers - 1
  /\ copyLabel' = "Copy text"
  /\ UNCHANGED <<hidden, transcript, errorMessage, transcribes, copies, dialog>>
  /\ UNCHANGED <<reqVars, jobsVars, whisperVars>>

\* retryBtn click: errorSection.hidden = true
Retry ==
  /\ hidden' = [hidden EXCEPT !.error = TRUE]
  /\ UNCHANGED <<transcript, errorMessage, copyLabel, transcribes, copies,
                 timers, dialog>>
  /\ UNCHANGED <<reqVars, jobsVars, whisperVars>>

ClientInit == ReqIdle /\ JobsIdle /\ ClientIdle /\ WhisperIdle

ClientNext ==
  \/ Click
  \/ Change
  \/ Drop
  \/ \E r \in ClientRequests : FetchSettle(r)
  \/ \E r \in ClientRequests : JsonSettle(r)
  \/ CopyClick
  \/ CopySettle
  \/ CopyTimer
  \/ Retry

SpecClient == ClientInit /\ [][ClientNext]_vars

\* C18: the loading indicator is shown exactly while a request started by
\* transcribe(file) is in flight, also when a second file was dropped
\* before the first request settled.
C18_LoadingShownWhileInFlight ==
  /\ (InFlight # {}) => ~hidden.loading
  /\ (InFlight = {}) => hidden.loading

\* C19: the result section and the error section are never both visible,
\* and no handler makes the second visible beside the first.
C19_NeverBothSectionsVisible ==
  /\ [](hidden.result \/ hidden.error)
  /\ [][hidden'.result \/ hidden'.error]_vars

\* A result is shown after a failed copy had shown the error section, with
\* no request left in flight.
C19_Witness ==
  /\ ~hidden.result
  /\ hidden.error
  /\ errorMessage = "Could not copy to clipboard"
  /\ transcript = Sentinel
  /\ \A r \in ClientRequests : transcribes[r] = "done"

\* ---------------------------------------------------- lib/local-whisper.js
\* Array.prototype.join(' ')
RECURSIVE JoinSpace(_)
JoinSpace(ts) ==
  IF ts = <<>> THEN <<>>
  ELSE IF Len(ts) = 1 THEN ts[1]
       ELSE ts[1] \o <<" ">> \o JoinSpace(Tail(ts))

\* const t = result?.text?.trim(); if (t) texts.push(t)
PushChunk(ts, ans) ==
  IF ans.defined /\ Trim(ans.text) # <<>> THEN Append(ts, Trim(ans.text)) ELSE ts

\* texts.join(' ').trim() || '(No speech detected)'
LocalResult(ts) == OrElse(Trim(JoinSpace(ts)), Sentinel)

\* The promises pipeline() has returned so far.
Created == {p \in DOMAIN pipelines : pipelines[p] # "none"}

\* Mutant: a pipeline whose creation failed is created anew.
NeedsCreateAfterFailure(tp, ps) == tp = NoPromise \/ ps[tp] = "rejected"

\* if (!transcriberPromise)
NeedsCreate(tp, ps) == tp = NoPromise

\* transcribeLocal is called and runs getTranscriber() to its return: the
\* test, the call of pipeline() and the assignment are one synchronous
\* step; the caller then awaits the promise it got.
TranscribeLocal(c) ==
  /\ locals[c].pc = "idle"
  /\ LET create == NeedsCreate(transcriberPromise, pipelines)
         new == Cardinality(Created) + 1
         got == IF create THEN new ELSE transcriberPromise
     IN /\ transcriberPromise' = got
        /\ pipelines' = IF create THEN [pipelines EXCEPT ![new] = "pending"]
                        ELSE pipelines
        /\ locals' = [locals EXCEPT ![c] =
                        [@ EXCEPT !.pc = "getTranscriber",
                                  !.transcriber = got,
                                  !.found = IF transcriberPromise = NoPromise
                                              THEN "null"
                                              ELSE pipelines[transcriberPromise]]]
  /\ UNCHANGED <<reqVars, jobsVars, clientVars>>

\* The promise pipeline() returned is fulfilled with the model, or rejected.
PipelineSettle(p) ==
  /\ pipelines[p] = "pending"
  /\ \E how \in {"fulfilled", "rejected"} :
       pipelines' = [pipelines EXCEPT ![p] = how]
  /\ UNCHANGED <<transcriberPromise, locals>>
  /\ UNCHANGED <<reqVars, jobsVars, clientVars>>

\* const transcriber = await getTranscriber(): the caller goes on with the
\* pipeline and starts extractToWav, or throws what the promise was
\* rejected with.
GetTranscriberSettle(c) ==
  /\ locals[c].pc = "getTranscriber"
  /\ pipelines[locals[c].transcriber] # "pending"
  /\ locals' = [locals EXCEPT ![c] =
                  [@ EXCEPT !.pc = IF pipelines[locals[c].transcriber] = "fulfilled"
                                     THEN "extractToWav" ELSE "failed"]]
  /\ UNCHANGED <<transcriberPromise, pipelines>>
  /\ UNCHANGED <<reqVars, jobsVars, clientVars>>

\* const wavPath = await extractToWav(inputPath), then getDurationFromWav
\* reads the file; either can fail.
ExtractToWavSettle(c) ==
  /\ locals[c].pc = "extractToWav"
  /\ \E ok \in BOOLEAN :
       locals' = [locals EXCEPT ![c] =
                    [@ EXCEPT !.pc = IF ok THEN "duration" ELSE "failed"]]
  /\ UNCHANGED <<transcriberPromise, pipelines>>
  /\ UNCHANGED <<reqVars, jobsVars, clientVars>>

\* After await getDurationFromWav(wavPath): the samples are read, and the
\* for loop starts its first transcriber(chunk) or, with no samples, the
\* function returns.
DurationStep(c) ==
  /\ locals[c].pc = "duration"
  /\ \E n \in 0..MaxChunks :
       locals' = [locals EXCEPT ![c] =
                    IF n = 0 THEN [@ EXCEPT !.pc = "done", !.result = LocalResult(<<>>)]
                    ELSE [@ EXCEPT !.pc = "chunk", !.chunks = n]]
  /\ UNCHANGED <<transcriberPromise, pipelines>>
  /\ UNCHANGED <<reqVars, jobsVars, clientVars>>

\* const result = await transcriber(chunk): the text is kept if it has
\* content; after the last chunk the function returns.  The call can fail.
ChunkSettle(c) ==
  /\ locals[c].pc = "chunk"
  /\ \/ \E ans \in Answers :
          LET ts == PushChunk(locals[c].texts, ans) IN
            locals' = [locals EXCEPT ![c] =
                         IF @.chunks = 1
                           THEN [@ EXCEPT !.pc = "done", !.chunks = 0, !.texts = ts,
                                          !.result = LocalResult(ts)]
                           ELSE [@ EXCEPT !.chunks = @ - 1, !.texts = ts]]
     \/ locals' = [locals EXCEPT ![c] = [@ EXCEPT !.pc = "failed"]]
  /\ UNCHANGED <<transcriberPromise, pipelines>>
  /\ UNCHANGED <<reqVars, jobsVars, clientVars>>

TranscriberInit == ReqIdle /\ JobsIdle /\ ClientIdle /\ WhisperIdle

TranscriberNext ==
  \/ \E c \in Callers : TranscribeLocal(c)
  \/ \E p \in Callers : PipelineSettle(p)
  \/ \E c \in Callers : GetTranscriberSettle(c)
  \/ \E c \in Callers : ExtractToWavSettle(c)
  \/ \E c \in Callers : DurationStep(c)
  \/ \E c \in Callers : ChunkSettle(c)

SpecTranscriber == TranscriberInit /\ [][TranscriberNext]_vars

\* The transcribeLocal calls made so far.
HasCalled == {c \in Callers : locals[c].pc # "idle"}

\* C20: pipeline() is called at most once in the life of the process,
\* whatever the interleaving of transcribeLocal calls; every caller gets
\* the one promise, also a caller that comes after its rejection, and no
\* caller goes on without the pipeline fulfilled.
C20_PipelineCreatedOnce ==
  /\ Cardinality(Created) <= 1
  /\ (HasCalled = {}) <=> (transcriberPromise = NoPromise)
  /\ \A c \in HasCalled :
       /\ locals[c].transcriber = transcriberPromise
       /\ transcriberPromise \in Created
       /\ locals[c].pc \notin {"getTranscriber", "failed"} =>
            pipelines[locals[c].transcriber] = "fulfilled"
       /\ (locals[c].pc # "getTranscriber"
           /\ pipelines[locals[c].transcriber] = "rejected") =>
            locals[c].pc = "failed"

\* Every caller has called and failed on the one rejected promise, one of
\* them having found it rejected already.
C20_Witness ==
  /\ HasCalled = Callers
  /\ Cardinality(Created) = 1
  /\ pipelines[transcriberPromise] = "rejected"
  /\ \A c \in Callers : locals[c].pc = "failed"
  /\ \E c \in Callers : locals[c].found = "rejected"
  /\ \E c \in Callers : locals[c].found = "null"

====
